---- MODULE Spec2Model ----
(***************************************************************************)
(* rterm: a serial console.  The model covers the byte parser              *)
(* (App::parse_byte), the event loop (App::run), term_io_loop with its     *)
(* reader and writer threads and the descriptor they share (termdev.rs),   *)
(* the wrap/scroll engine (Position::do_movement,                          *)
(* Position::follow_get_start_pos, WrappableTextWidget::render), the       *)
(* grapher (App::parse_byte, UI::render) and the startup and cleanup of    *)
(* main.                                                                   *)
(*                                                                         *)
(* Text is a sequence of character codes; every character the program      *)
(* puts in a line is below 0x80, so a line's byte length (String::len) is  *)
(* its number of characters.                                               *)
(***************************************************************************)
EXTENDS Integers, Sequences, FiniteSets, TLC

VARIABLES
    \* App and WrapText (app.rs:28-33, wraptext.rs:25-28)
    lines,          \* WrapText::lines, the Line Buffer
    cur_line,       \* App::cur_line
    outfile,        \* App::outfile: Some(content of the file) or None
    grapher,        \* App::grapher: Some(Grapher) or None
    \* WrapTextState (wraptext.rs:20-23) and UI (app.rs:42-46)
    position,       \* WrapTextState::position
    movement_queue, \* WrapTextState::movement_queue
    text_area,      \* Some(inner area of UI::ouput_chunk), None before the first draw
    screen,         \* Some(the cells the last render drew of the output pane)
    chart,          \* Some(the chart of the last redraw) when graphing
    \* App::run locals (app.rs:120-222)
    pc,             \* position of the event loop
    update,         \* the redraw flag
    chunk,          \* the bytes of the received chunk not parsed yet
    res,            \* result of the event loop
    \* term_io_loop (app.rs:48-108)
    chan,           \* the queue read_thread_tx -> read_rx
    reader,         \* state of the reader thread
    writer,         \* state of the writer thread
    io,             \* position of term_io_loop itself
    wchan,          \* the queue write_tx -> write_thread_rx
    \* TerminalDevice (termdev.rs:11-30)
    arc,            \* strong count of drop_handler: Arc<TerminalCloser>
    closes,         \* number of close(fd) calls made
    ioAfterClose,   \* a read or write was issued on the descriptor after a close
    \* main (main.rs:124-188)
    boot,           \* Some(the startup of main) when main is what is modelled
    \* the input side: App::run's textarea, App::history, the writer thread
    textarea,       \* the line of the input box (app.rs:127)
    history,        \* App::history (app.rs:30)
    wdata,          \* the bytes of the writer's chunk that write_all has yet to write
    \* history
    readLog,        \* every byte the reader obtained from the device, in order
    fed,            \* every byte passed to parse_byte, in order
    prev,           \* Some(position and movement queue the last render started from)
    written,        \* every byte the device accepted from the writer, in order
    tick            \* chunks queued when this tick of the loop began, not received yet

vars == <<lines, cur_line, outfile, grapher, position, movement_queue, text_area,
          screen, chart, pc, update, chunk, res, chan, reader, writer, io, wchan,
          arc, closes, ioAfterClose, boot, textarea, history, wdata, readLog, fed,
          prev, written, tick>>

-----------------------------------------------------------------------------
(* Bounds of the model *)

MaxBytes == 3        \* bytes the device produces in a session
MaxMoves == 4        \* movements queued between two renders of the widget alone
MaxLines == 2        \* lines of the buffer of the widget alone
MaxCharts == 3       \* lines fed to the chart alone
MaxWidth == 8        \* widths a wrapped height is compared over
MaxSamples == 11     \* lines fed to the grapher alone
MaxDigits == 3       \* characters of a line fed to the chart alone
MaxExp == 1          \* decimal exponent at which the model's f64 overflows
MaxFeed == 7         \* bytes fed to the sample parser alone
MaxReads == 1        \* bytes the device produces while the threads are modelled
MaxSends == 1        \* lines entered while the threads are modelled
MaxEntered == 2      \* lines entered while the input side is modelled
MaxTyped == 1        \* characters typed into a line

(* Program constants *)

NL == 10                    \* app.rs:230
BufLen == 8                 \* app.rs:65
line_number_width == 4      \* wraptext.rs:154

\* Option: None is the empty sequence, Some(x) the sequence of x alone
None == <<>>
Some(x) == <<x>>
Follow == [tag |-> "Follow", line |-> 0, offset |-> 0]
ScrollUp == "ScrollUp"
ScrollDown == "ScrollDown"
MFollow == "Follow"
Movement == {ScrollUp, ScrollDown, MFollow}

At(l, o) == [tag |-> "At", line |-> l, offset |-> o]

-----------------------------------------------------------------------------
(* Text helpers *)

Last(s) == s[Len(s)]
Front(s) == SubSeq(s, 1, Len(s) - 1)
Min(a, b) == IF a <= b THEN a ELSE b
Max(a, b) == IF a >= b THEN a ELSE b

RECURSIVE Pow10(_)
Pow10(k) == IF k = 0 THEN 1 ELSE 10 * Pow10(k - 1)

\* one uppercase hexadecimal digit, as a character code
HexDigit(d) == IF d < 10 THEN 48 + d ELSE 55 + d

\* format!("{byte:X}"): uppercase hexadecimal, no padding
RECURSIVE UpperHex(_)
UpperHex(n) == IF n < 16 THEN <<HexDigit(n)>>
               ELSE UpperHex(n \div 16) \o <<HexDigit(n % 16)>>

\* std::str::from_utf8(&[byte]).is_ok(): a single byte is valid UTF-8 iff it is ASCII
IsValidUtf8Byte(b) == b < 128

\* the text parse_byte appends for a byte other than 0x0A (app.rs:255-260)
ByteTextLowerHex(b) == IF IsValidUtf8Byte(b) THEN <<b>>
                       ELSE <<48, 120>> \o [i \in 1..Len(UpperHex(b)) |->
                              IF UpperHex(b)[i] >= 65 THEN UpperHex(b)[i] + 32
                              ELSE UpperHex(b)[i]]
ByteText(b) == IF IsValidUtf8Byte(b) THEN <<b>> ELSE <<48, 120>> \o UpperHex(b)

-----------------------------------------------------------------------------
(* f64.  A finite value is the exact decimal n / d (d a power of ten); the   *)
(* window arithmetic of the program only ever subtracts, adds and scales by  *)
(* positive constants, where IEEE rounding is monotone, so exact decimals    *)
(* keep every comparison the program makes.  What is kept of the format is   *)
(* its finite range: a magnitude of 10^MaxExp or more is infinite (f64: more *)
(* than 1.797e308), and inf - inf is NaN.                                    *)

Fin(n, d) == [k |-> "fin", n |-> n, d |-> d]
PosInf == [k |-> "inf", n |-> 1, d |-> 1]
NegInf == [k |-> "inf", n |-> -1, d |-> 1]
NaN == [k |-> "nan", n |-> 0, d |-> 1]

Abs(i) == IF i < 0 THEN -i ELSE i
\* rounding of an exact result to the format: overflow gives an infinity
Round(n, d) == IF Abs(n) >= Pow10(MaxExp) * d
               THEN (IF n < 0 THEN NegInf ELSE PosInf)
               ELSE Fin(n, d)

FNeg(a) == IF a.k = "nan" THEN NaN ELSE [a EXCEPT !.n = -a.n]

FAdd(a, b) ==
    IF a.k = "nan" \/ b.k = "nan" THEN NaN
    ELSE IF a.k = "inf" /\ b.k = "inf" THEN (IF a.n = b.n THEN a ELSE NaN)
    ELSE IF a.k = "inf" THEN a
    ELSE IF b.k = "inf" THEN b
    ELSE LET d == Max(a.d, b.d)
         IN  Round(a.n * (d \div a.d) + b.n * (d \div b.d), d)

FSub(a, b) == FAdd(a, FNeg(b))

\* c * a for the positive constant c = 1 / cd (0.1, 0.001)
FScale(cd, a) ==
    IF a.k # "fin" THEN a ELSE Round(a.n, a.d * cd)

FAbs(a) == IF a.k = "nan" THEN NaN ELSE [a EXCEPT !.n = Abs(a.n)]

\* a <= b of f64: false when either is NaN
FLeq(a, b) ==
    /\ a.k # "nan"
    /\ b.k # "nan"
    /\ IF a.k = "inf" /\ b.k = "inf" THEN a.n <= b.n
       ELSE IF a.k = "inf" THEN a.n < 0
       ELSE IF b.k = "inf" THEN b.n > 0
       ELSE a.n * b.d <= b.n * a.d

\* f64::max: the other operand when one is NaN
FMax(a, b) ==
    IF a.k = "nan" THEN b
    ELSE IF b.k = "nan" THEN a
    ELSE IF FLeq(a, b) THEN b ELSE a

\* the order of OrderedFloat: NaN is equal to itself and above everything
OrdLeq(a, b) == IF b.k = "nan" THEN TRUE
                ELSE IF a.k = "nan" THEN FALSE
                ELSE FLeq(a, b)

-----------------------------------------------------------------------------
(* Grapher: value_pattern (an optional minus, digits, an optional dot,       *)
(* digits; main.rs:153) and str::parse::<f64> (app.rs:239-241)               *)

IsDigit(c) == c \in 48..57
Minus == 45
Dot == 46

\* a match of the pattern can start at i
MatchStart(s, i) ==
    \/ IsDigit(s[i])
    \/ s[i] = Minus /\ i < Len(s) /\ IsDigit(s[i + 1])

\* the end of the longest run of digits that starts at p (p - 1 when there is none)
RECURSIVE DigitsEnd(_, _)
DigitsEnd(s, p) ==
    IF p <= Len(s) /\ IsDigit(s[p]) THEN DigitsEnd(s, p + 1) ELSE p - 1

\* a pattern without the optional minus
FirstMatchUnsigned(s) ==
    IF \A i \in 1..Len(s) : ~IsDigit(s[i]) THEN <<>>
    ELSE LET i == CHOOSE j \in 1..Len(s) :
                      IsDigit(s[j]) /\ \A h \in 1..(j - 1) : ~IsDigit(s[h])
             e1 == DigitsEnd(s, i)
             e2 == IF e1 < Len(s) /\ s[e1 + 1] = Dot THEN DigitsEnd(s, e1 + 2) ELSE e1
         IN  SubSeq(s, i, e2)

\* Regex::captures(..).get(0): the leftmost match, each repetition greedy;
\* <<>> when the line has no match (a match holds at least one digit)
FirstMatch(s) ==
    IF \A i \in 1..Len(s) : ~MatchStart(s, i) THEN <<>>
    ELSE LET i == CHOOSE j \in 1..Len(s) :
                      MatchStart(s, j) /\ \A h \in 1..(j - 1) : ~MatchStart(s, h)
             p == IF s[i] = Minus THEN i + 1 ELSE i
             e1 == DigitsEnd(s, p)
             e2 == IF e1 < Len(s) /\ s[e1 + 1] = Dot THEN DigitsEnd(s, e1 + 2) ELSE e1
         IN  SubSeq(s, i, e2)

RECURSIVE DigitsValue(_)
DigitsValue(ds) ==
    IF ds = <<>> THEN 0 ELSE 10 * DigitsValue(Front(ds)) + (Last(ds) - 48)

\* str::parse::<f64> of a match of the pattern: it always parses
ParseF64(m) ==
    LET neg == m[1] = Minus
        body == IF neg THEN Tail(m) ELSE m
        ip == SubSeq(body, 1, DigitsEnd(body, 1))
        rest == SubSeq(body, Len(ip) + 1, Len(body))
        fp == IF rest = <<>> THEN <<>> ELSE Tail(rest)
        n == DigitsValue(ip \o fp)
    IN  Round(IF neg THEN -n ELSE n, Pow10(Len(fp)))

\* the window slides when data.len() + window_len / 10.0 > window[1]
\* (app.rs:242-247); both sides times ten, in integers
SlidesWithoutMargin(g) == 10 * Len(g.data) > 10 * g.window[2]
Slides(g) == 10 * Len(g.data) + g.window_len > 10 * g.window[2]

\* the window after a slide (app.rs:245-246)
SlideUpperOnly(w) == <<w[1], w[2] + 1>>
Slide(w) == <<w[1] + 1, w[2] + 1>>

\* the grapher after a completed line (app.rs:238-252)
Ingest(g, line) ==
    LET m == FirstMatch(line)
    IN  IF m = <<>> THEN g
        ELSE [g EXCEPT
                !.window = IF Slides(g) THEN Slide(g.window) ELSE g.window,
                !.data = Append(g.data, <<Len(g.data), ParseF64(m)>>)]

\* Grapher as main builds it (main.rs:151-156)
NewGrapher(graph_len) ==
    [data |-> <<>>, window_len |-> graph_len, window |-> <<0, graph_len>>]

-----------------------------------------------------------------------------
(* The chart of UI::render (app.rs:331-360) *)

\* visible_data: the last window_len samples
VisibleFrom(g) == Max(0, Len(g.data) - g.window_len) + 1
Visible(g) == SubSeq(g.data, VisibleFrom(g), Len(g.data))

\* Iterator::min_by_key: the first of the least elements
MinY(v, dflt) ==
    IF v = <<>> THEN dflt
    ELSE LET i == CHOOSE j \in 1..Len(v) :
                      /\ \A h \in 1..Len(v) : OrdLeq(v[j][2], v[h][2])
                      /\ \A h \in 1..(j - 1) : ~OrdLeq(v[h][2], v[j][2])
         IN  v[i][2]

\* Iterator::max_by_key: the last of the greatest elements
MaxY(v, dflt) ==
    IF v = <<>> THEN dflt
    ELSE LET i == CHOOSE j \in 1..Len(v) :
                      /\ \A h \in 1..Len(v) : OrdLeq(v[h][2], v[j][2])
                      /\ \A h \in (j + 1)..Len(v) : ~OrdLeq(v[j][2], v[h][2])
         IN  v[i][2]

\* the bounds of the y axis (app.rs:342-354); the second line reads the
\* lower bound the first line has just computed
YBounds(v) ==
    LET min0 == MinY(v, Fin(-1, 1))
        max0 == MaxY(v, Fin(1, 1))
        size == FSub(max0, min0)
        min1 == FSub(FSub(min0, FScale(10, size)),
                     FScale(1000, FMax(FAbs(max0), FAbs(min0))))
        max1 == FAdd(FAdd(max0, FScale(10, size)),
                     FScale(1000, FMax(FAbs(max0), FAbs(min1))))
    IN  <<min1, max1>>

\* what a redraw plots: the x window, the samples handed to the chart, the y bounds
Chart(g) == [xaxis |-> g.window, data |-> Visible(g), ybounds |-> YBounds(Visible(g))]

-----------------------------------------------------------------------------
(* Wrap/scroll engine (wraptext.rs).  Line indices count from 0 as in the   *)
(* program: line l of the buffer is lines[l + 1].                           *)

\* the wrapped height ScrollUp computes for a line of len bytes (wraptext.rs:73-75)
HeightOffByOne(len, w) == (len + line_number_width) \div w + 1
ScrollUpHeight(len, w) == (len + line_number_width - 1) \div w + 1

\* the wrapped height ScrollDown computes (wraptext.rs:91-93)
ScrollDownHeight(len, w) == (len + line_number_width - 1) \div w + 1

\* the wrapped height follow_get_start_pos computes (wraptext.rs:126-127)
FollowHeight(len, w) == (len + line_number_width - 1) \div w + 1

\* the loop of follow_get_start_pos (wraptext.rs:125-140): the k-th line from
\* the end is visited with tot rows accumulated; the result is
\* <<line_idx, offset>> at the break or at the end of the buffer
RECURSIVE FollowWalk(_, _, _, _)
FollowWalk(ls, area, k, tot) ==
    IF k > Len(ls) THEN <<k - 2, 0>>
    ELSE LET t == tot + FollowHeight(Len(ls[Len(ls) - k + 1]), area.width)
         IN  IF t > area.height THEN <<k - 1, t - area.height>>
             ELSE IF t = area.height THEN <<k - 1, 0>>
             ELSE FollowWalk(ls, area, k + 1, t)

\* Position::follow_get_start_pos (wraptext.rs:117-142), as <<line, offset>>
FollowStartNoOffset(area, ls) ==
    LET r == FollowWalk(ls, area, 1, 0) IN <<Len(ls) - 1 - r[1], 0>>
follow_get_start_pos(area, ls) ==
    LET r == FollowWalk(ls, area, 1, 0) IN <<Len(ls) - 1 - r[1], r[2]>>

\* ScrollUp from At(line, offset) (wraptext.rs:69-82)
ScrollUpKeepsOffset(p, area, ls) ==
    IF p.offset = 0
    THEN (IF p.line # 0 THEN At(p.line - 1, 0) ELSE p)
    ELSE At(p.line, p.offset - 1)
ScrollUpToLineTop(p, area, ls) ==
    IF p.offset = 0
    THEN (IF p.line # 0
          THEN At(p.line - 1, ScrollUpHeight(Len(ls[p.line]), area.width) - 1)
          ELSE p)
    ELSE At(p.line, 0)
ScrollUpAt(p, area, ls) ==
    IF p.offset = 0
    THEN (IF p.line # 0
          THEN At(p.line - 1, ScrollUpHeight(Len(ls[p.line]), area.width) - 1)
          ELSE p)
    ELSE At(p.line, p.offset - 1)

\* ScrollDown from At(line, offset) (wraptext.rs:90-105)
ScrollDownAt(p, area, ls) ==
    LET height == ScrollDownHeight(Len(ls[p.line + 1]), area.width)
    IN  IF p.offset + 1 >= height
        THEN (IF p.line >= Len(ls) - 1
              THEN At(p.line, Min(area.height - 1, p.offset + 1))
              ELSE At(p.line + 1, 0))
        ELSE At(p.line, p.offset + 1)

\* Position::do_movement (wraptext.rs:60-114)
do_movement(p, mov, area, ls) ==
    LET fs == follow_get_start_pos(area, ls)
    IN  CASE mov = ScrollUp ->
               (IF p.tag = "At" THEN ScrollUpAt(p, area, ls) ELSE At(fs[1], fs[2]))
          [] mov = ScrollDown ->
               (IF p.tag = "At" THEN ScrollDownAt(p, area, ls) ELSE At(fs[1], fs[2]))
          [] mov = MFollow -> Follow

\* the loop over state.movement_queue (wraptext.rs:165-169)
RECURSIVE ApplyNewestFirst(_, _, _, _)
ApplyNewestFirst(p, q, area, ls) ==
    IF q = <<>> THEN p
    ELSE ApplyNewestFirst(do_movement(p, Last(q), area, ls), Front(q), area, ls)
RECURSIVE ApplyMovements(_, _, _, _)
ApplyMovements(p, q, area, ls) ==
    IF q = <<>> THEN p
    ELSE ApplyMovements(do_movement(p, Head(q), area, ls), Tail(q), area, ls)

\* the gutter and the text of line l: format!(" {:0>2} ", l % 100) then the line
RowText(l, line) ==
    <<32, 48 + ((l % 100) \div 10), 48 + (l % 10), 32>> \o line

Blank == <<>>
BlankScreen(area) ==
    [rc \in (0..(area.height - 1)) \X (0..(area.width - 1)) |-> Blank]

\* the loop over the characters of one line (wraptext.rs:196-218), from
\* character i (counted from 0) on; st is [row, col, cells]
RECURSIVE DrawChars(_, _, _, _, _)
DrawChars(st, l, text, i, area) ==
    IF i >= Len(text) \/ area.height <= st.row THEN st
    ELSE LET cells == IF st.row >= 0
                      THEN [st.cells EXCEPT ![<<st.row, st.col>>] = <<l, i, text[i + 1]>>]
                      ELSE st.cells
             is_last == i = Len(text) - 1
             wrap == st.col + 1 >= area.width /\ ~is_last
         IN  DrawChars([row |-> IF wrap THEN st.row + 1 ELSE st.row,
                        col |-> IF wrap THEN 0 ELSE st.col + 1,
                        cells |-> cells],
                       l, text, i + 1, area)

\* the loop over the lines from line l on (wraptext.rs:179-220)
RECURSIVE DrawLines(_, _, _, _, _)
DrawLines(cur_row, cells, l, ls, area) ==
    IF l >= Len(ls) THEN cells
    ELSE LET st == DrawChars([row |-> cur_row, col |-> 0, cells |-> cells],
                             l, RowText(l, ls[l + 1]), 0, area)
         IN  DrawLines(st.row + 1, st.cells, l + 1, ls, area)

\* WrappableTextWidget::render (wraptext.rs:148-221): the position after the
\* queued movements, and the cells drawn
RenderFromTail(p, q, area, ls) ==
    LET np == ApplyMovements(Follow, q, area, ls)
        start == IF np.tag = "At" THEN <<np.line, np.offset>>
                 ELSE follow_get_start_pos(area, ls)
    IN  [position |-> np,
         cells |-> DrawLines(-start[2], BlankScreen(area), start[1], ls, area)]
render(p, q, area, ls) ==
    LET np == ApplyMovements(p, q, area, ls)
        start == IF np.tag = "At" THEN <<np.line, np.offset>>
                 ELSE follow_get_start_pos(area, ls)
    IN  [position |-> np,
         cells |-> DrawLines(-start[2], BlankScreen(area), start[1], ls, area)]

-----------------------------------------------------------------------------
(* App::parse_byte (app.rs:225-275) *)

\* wraptext.lines.last_mut().unwrap().push_str(&str) (app.rs:261)
PushFirst(ls, str) == [ls EXCEPT ![1] = @ \o str]
PushLast(ls, str) == [ls EXCEPT ![Len(ls)] = @ \o str]

\* wraptext.lines.push(String::new()) (app.rs:237)
PushLine(ls) == Append(ls, <<>>)

\* byte 10 (app.rs:230-253); ok: write_all and flush of "\n" succeed.  A
\* failed write returns before the line buffer or the grapher is touched.
ParseNewlinePushesFirst(ok) ==
    IF outfile # None /\ ~ok
    THEN lines' = PushLine(lines) /\ UNCHANGED <<cur_line, outfile, grapher>>
    ELSE /\ outfile' = IF outfile = None THEN None ELSE Some(Append(outfile[1], NL))
         /\ lines' = PushLine(lines)
         /\ grapher' = IF grapher = None THEN None
                       ELSE Some(Ingest(grapher[1], cur_line))
         /\ cur_line' = <<>>
ParseNewline(ok) ==
    IF outfile # None /\ ~ok
    THEN UNCHANGED <<lines, cur_line, outfile, grapher>>
    ELSE /\ outfile' = IF outfile = None THEN None ELSE Some(Append(outfile[1], NL))
         /\ lines' = PushLine(lines)
         /\ grapher' = IF grapher = None THEN None
                       ELSE Some(Ingest(grapher[1], cur_line))
         /\ cur_line' = <<>>

\* any other byte (app.rs:254-267); a failed write_all may have written the
\* first k bytes of the text, after the line buffer took all of it
ParseOtherLineAfterWrite(byte, ok, k) ==
    LET str == ByteText(byte)
    IN  /\ lines' = PushLast(lines, str)
        /\ cur_line' = IF outfile = None \/ ok THEN cur_line \o str ELSE cur_line
        /\ outfile' = IF outfile = None THEN None
                      ELSE IF ok THEN Some(outfile[1] \o str)
                      ELSE Some(outfile[1] \o SubSeq(str, 1, Min(k, Len(str) - 1)))
        /\ UNCHANGED grapher
ParseOther(byte, ok, k) ==
    LET str == ByteText(byte)
    IN  /\ lines' = PushLast(lines, str)
        /\ cur_line' = cur_line \o str
        /\ outfile' = IF outfile = None THEN None
                      ELSE IF ok THEN Some(outfile[1] \o str)
                      ELSE Some(outfile[1] \o SubSeq(str, 1, Min(k, Len(str) - 1)))
        /\ UNCHANGED grapher

\* parse_byte(byte): Ok(()) iff there is no file or ok
parse_byte(byte, ok, k) ==
    /\ IF byte = NL THEN ParseNewline(ok) ELSE ParseOther(byte, ok, k)
    /\ fed' = Append(fed, byte)

\* the outcomes of a write to the output file
WriteOutcomes == IF outfile = None THEN {TRUE} ELSE BOOLEAN
PartialWrites(ok) == IF ok THEN {0} ELSE 0..3

-----------------------------------------------------------------------------
(* The session: term_io_loop's reader thread and App::run *)

Bytes == {NL, 49, 159}      \* "\n", "1", and 0x9F, which is no UTF-8 on its own
Areas == {[width |-> 3, height |-> 2], [width |-> 5, height |-> 3]}
GraphLens == {1}

RECURSIVE SeqsOf(_, _)
SeqsOf(S, n) == IF n = 0 THEN {<<>>}
                ELSE {<<>>} \cup {<<x>> \o t : x \in S, t \in SeqsOf(S, n - 1)}

appVars == <<lines, cur_line, outfile, grapher, fed>>
uiVars == <<position, movement_queue, text_area, screen, chart>>
ioVars == <<chan, reader, readLog>>
procVars == <<writer, io, wchan, arc, closes, ioAfterClose, boot>>
lineVars == <<textarea, history>>
devVars == <<wdata, written>>

\* the writer thread, term_io_loop's own loop, the descriptor and main's
\* startup, where they are not what is modelled
procIdle ==
    /\ writer = "idle" /\ io = "idle" /\ wchan = <<>>
    /\ arc = 1 /\ closes = 0 /\ ioAfterClose = FALSE
    /\ boot = None

\* nothing typed, nothing sent, and the first tick of the event loop begins
\* with an empty queue
lineIdle ==
    /\ textarea = <<>> /\ history = <<>>
    /\ wdata = <<>> /\ written = <<>>
    /\ tick = 0

Init ==
    /\ lines = <<<<>>>>
    /\ cur_line = <<>>
    /\ outfile \in {None, Some(<<>>)}
    /\ grapher \in {None} \cup {Some(NewGrapher(n)) : n \in GraphLens}
    /\ position = Follow
    /\ movement_queue = <<>>
    /\ text_area = None
    /\ screen = None
    /\ chart = None
    /\ pc = "draw"
    /\ update = TRUE
    /\ chunk = <<>>
    /\ res = "running"
    /\ chan = <<>>
    /\ reader = "run"
    /\ readLog = <<>>
    /\ fed = <<>>
    /\ prev = None
    /\ procIdle
    /\ lineIdle

\* mpsc::Sender::send and Receiver::try_recv: a FIFO queue
ChanSend(q, m) == Append(q, m)
ChanRecvNewest(q) == [msg |-> Last(q), rest |-> Front(q)]
ChanRecv(q) == [msg |-> Head(q), rest |-> Tail(q)]

\* the reader thread reads n > 0 bytes and sends them as one chunk
\* (app.rs:65-70); the send fails once App::run has returned and dropped read_rx
ReaderRead ==
    /\ reader = "run"
    /\ \E bs \in SeqsOf(Bytes, Min(BufLen, MaxBytes - Len(readLog))) \ {<<>>} :
          /\ readLog' = readLog \o bs
          /\ IF pc = "done"
             THEN reader' = "exit" /\ chan' = chan
             ELSE reader' = reader /\ chan' = ChanSend(chan, bs)
    /\ UNCHANGED <<procVars, appVars, uiVars, pc, update, chunk, res, prev, lineVars,
                   devVars, tick>>

\* terminal.draw (app.rs:148-162) and UI::render (app.rs:314-373); the first
\* draw creates the UI from the size of the frame
Draw ==
    /\ pc = "draw"
    /\ update
    /\ update' = FALSE
    /\ \E area \in (IF text_area = None THEN Areas ELSE {text_area[1]}) :
          LET r == render(position, movement_queue, area, lines)
          IN  /\ text_area' = Some(area)
              /\ position' = r.position
              /\ screen' = Some(r.cells)
    /\ movement_queue' = <<>>
    /\ chart' = IF grapher = None THEN None ELSE Some(Chart(grapher[1]))
    /\ pc' = "recv"
    /\ UNCHANGED <<procVars, appVars, ioVars, chunk, res, prev, lineVars, devVars, tick>>

\* update is false: nothing is drawn (app.rs:148)
SkipDraw ==
    /\ pc = "draw"
    /\ ~update
    /\ pc' = "recv"
    /\ UNCHANGED <<procVars, appVars, uiVars, ioVars, update, chunk, res, prev, lineVars,
                   devVars, tick>>

\* read_rx.try_recv() (app.rs:165-166)
Recv ==
    /\ pc = "recv"
    /\ IF chan = <<>>
       THEN /\ pc' = "poll"
            /\ UNCHANGED <<chan, chunk, update>>
       ELSE /\ chunk' = ChanRecv(chan).msg
            /\ chan' = ChanRecv(chan).rest
            /\ update' = TRUE
            /\ pc' = "parse"
    /\ tick' = IF chan = <<>> THEN tick ELSE Max(tick - 1, 0)
    /\ UNCHANGED <<procVars, appVars, uiVars, reader, readLog, res, prev, lineVars,
                   devVars>>

\* one turn of the loop over the chunk (app.rs:167-171)
Parse ==
    /\ pc = "parse"
    /\ \E ok \in WriteOutcomes : \E k \in PartialWrites(ok) :
          /\ parse_byte(Head(chunk), ok, k)
          /\ chunk' = Tail(chunk)
          /\ IF ok
             THEN /\ pc' = IF Tail(chunk) = <<>> THEN "poll" ELSE "parse"
                  /\ res' = res
             ELSE /\ pc' = "stop"
                  /\ res' = "err"
    /\ UNCHANGED <<procVars, uiVars, ioVars, update, prev, lineVars, devVars, tick>>

\* the loop goes back to its top (app.rs:147): the next tick begins with the
\* queue as it is
TickBegins == tick' = Len(chan)

\* event::poll finds no event within the millisecond, or an event that asks
\* for no redraw (app.rs:174, 204, 211)
PollNothing ==
    /\ pc = "poll"
    /\ pc' = "draw"
    /\ TickBegins
    /\ UNCHANGED <<procVars, appVars, uiVars, ioVars, update, chunk, res, prev, lineVars,
                   devVars>>

\* Esc (app.rs:179-180): run returns Ok(()) at once
KeyEsc ==
    /\ pc = "poll"
    /\ pc' = "done"
    /\ res' = "ok"
    /\ UNCHANGED <<procVars, appVars, uiVars, ioVars, update, chunk, prev, lineVars,
                   devVars, tick>>

\* WrapTextState::scroll_up, scroll_down, follow (wraptext.rs:47-57)
Queue(mov) == movement_queue' = Append(movement_queue, mov)

\* mouse scroll and Ctrl+D (app.rs:187-203)
Scroll(mov) ==
    /\ pc = "poll"
    /\ Queue(mov)
    /\ update' = TRUE
    /\ pc' = "draw"
    /\ TickBegins
    /\ UNCHANGED <<procVars, appVars, position, text_area, screen, chart, ioVars,
                   chunk, res, prev, lineVars, devVars>>

\* Event::Resize (app.rs:206-210): UI::update_size lays the panes out again
Resize ==
    /\ pc = "poll"
    /\ \E area \in Areas \ {text_area[1]} : text_area' = Some(area)
    /\ update' = TRUE
    /\ pc' = "draw"
    /\ TickBegins
    /\ UNCHANGED <<procVars, appVars, position, movement_queue, screen, chart,
                   ioVars, chunk, res, prev, lineVars, devVars>>

\* after the loop (app.rs:219-221)
Stop ==
    /\ pc = "stop"
    /\ pc' = "done"
    /\ UNCHANGED <<procVars, appVars, uiVars, ioVars, update, chunk, res, prev, lineVars,
                   devVars, tick>>

Next ==
    \/ ReaderRead
    \/ Draw
    \/ SkipDraw
    \/ Recv
    \/ Parse
    \/ PollNothing
    \/ KeyEsc
    \/ \E mov \in Movement : Scroll(mov)
    \/ Resize
    \/ Stop

Spec == Init /\ [][Next]_vars

-----------------------------------------------------------------------------
(* The widget alone: a fixed Line Buffer, movements queued by                *)
(* WrapTextState::scroll_up, scroll_down and follow, renders and resizes.    *)
(* prev is Some only in the state a render leaves: the next event clears it. *)

WidgetText(n) == [i \in 1..n |-> 97]
WidgetLines == {WidgetText(0), WidgetText(6)}
WidgetBuffers == SeqsOf(WidgetLines, MaxLines) \ {<<>>}
WidgetAreas == {[width |-> 3, height |-> 2], [width |-> 5, height |-> 3],
                [width |-> 4, height |-> 1]}

\* the variables a widget or a grapher on its own leaves alone
idleSession == <<pc, update, chunk, res, chan, reader, readLog, procVars, lineVars,
                  devVars, tick>>

WidgetInit ==
    /\ lines \in WidgetBuffers
    /\ text_area \in {Some(a) : a \in WidgetAreas}
    /\ position = Follow
    /\ movement_queue = <<>>
    /\ screen = None
    /\ prev = None
    /\ cur_line = <<>> /\ outfile = None /\ grapher = None /\ chart = None
    /\ pc = "widget" /\ update = FALSE /\ chunk = <<>> /\ res = "running"
    /\ chan = <<>> /\ reader = "run" /\ readLog = <<>> /\ fed = <<>>
    /\ procIdle
    /\ lineIdle

\* WrapTextState::scroll_up, scroll_down, follow (wraptext.rs:47-57)
WidgetQueue(mov) ==
    /\ Len(movement_queue) < MaxMoves
    /\ Queue(mov)
    /\ prev' = None
    /\ UNCHANGED <<appVars, position, text_area, screen, chart, idleSession>>

\* WrappableTextWidget::render (wraptext.rs:148-221)
WidgetRender ==
    /\ LET r == render(position, movement_queue, text_area[1], lines)
       IN  /\ position' = r.position
           /\ screen' = Some(r.cells)
    /\ movement_queue' = <<>>
    /\ prev' = Some([position |-> position, queue |-> movement_queue])
    /\ UNCHANGED <<appVars, text_area, chart, idleSession>>

\* UI::update_size (app.rs:303-311)
WidgetResize ==
    /\ \E area \in WidgetAreas \ {text_area[1]} : text_area' = Some(area)
    /\ prev' = None
    /\ UNCHANGED <<appVars, position, movement_queue, screen, chart, idleSession>>

WidgetNext ==
    \/ \E mov \in Movement : WidgetQueue(mov)
    \/ WidgetRender
    \/ WidgetResize

WidgetSpec == WidgetInit /\ [][WidgetNext]_vars

-----------------------------------------------------------------------------
(* The grapher alone: one turn of the event loop per byte, that is           *)
(* parse_byte of the byte and then the redraw of the chart (app.rs:148-171). *)

GraphWindows == {0, 1, 3, 11}
GraphBytes == {49, NL}
AxisWindows == {1, 2}
AxisBytes == {49, Minus, NL}

GraphInit(windows) ==
    /\ lines = <<<<>>>>
    /\ cur_line = <<>>
    /\ outfile = None
    /\ grapher \in {Some(NewGrapher(n)) : n \in windows}
    /\ chart = None
    /\ fed = <<>>
    /\ position = Follow /\ movement_queue = <<>> /\ text_area = None
    /\ screen = None /\ prev = None
    /\ pc = "graph" /\ update = FALSE /\ chunk = <<>> /\ res = "running"
    /\ chan = <<>> /\ reader = "run" /\ readLog = <<>>
    /\ procIdle
    /\ lineIdle

\* parse_byte of one byte, then UI::render of the chart
GraphTick(byte) ==
    /\ parse_byte(byte, TRUE, 0)
    /\ chart' = Some(Chart(grapher'[1]))
    /\ UNCHANGED <<position, movement_queue, text_area, screen, prev, idleSession>>

\* lines of at most one character, MaxSamples of them
GraphNext ==
    \E byte \in GraphBytes :
        /\ IF byte = NL THEN Len(lines) <= MaxSamples ELSE cur_line = <<>>
        /\ GraphTick(byte)

GraphSpec == GraphInit(GraphWindows) /\ [][GraphNext]_vars

\* lines of at most MaxDigits characters, MaxCharts of them
AxisNext ==
    \E byte \in AxisBytes :
        /\ IF byte = NL THEN Len(lines) <= MaxCharts ELSE Len(cur_line) < MaxDigits
        /\ GraphTick(byte)

AxisSpec == GraphInit(AxisWindows) /\ [][AxisNext]_vars

\* the sample parser alone: at most MaxFeed bytes of "1", ".", "-", "f" and
\* "\n", in lines of at most MaxDigits characters
SampleWindows == {3}
SampleBytes == {49, Dot, Minus, 102, NL}

\* parse_byte of one byte
SampleTick(byte) ==
    /\ parse_byte(byte, TRUE, 0)
    /\ UNCHANGED <<position, movement_queue, text_area, screen, chart, prev,
                   idleSession>>

SampleNext ==
    \E byte \in SampleBytes :
        /\ Len(fed) < MaxFeed
        /\ byte # NL => Len(cur_line) < MaxDigits
        /\ SampleTick(byte)

SampleSpec == GraphInit(SampleWindows) /\ [][SampleNext]_vars

-----------------------------------------------------------------------------
(* The threads: App::run's event loop, term_io_loop and its reader and      *)
(* writer threads (app.rs:48-108, 141-146, 219), and the descriptor they    *)
(* share (termdev.rs).  App::run's locals stop_rx, read_rx and write_tx are *)
(* dropped when it returns, that is when pc = "done"; the stop message of   *)
(* app.rs:219 is sent in the step that returns.                             *)

IoChunks == {<<49>>, <<NL>>}
Errnos == {"EAGAIN", "EIO"}

\* TerminalReader::read and TerminalWriter::write (termdev.rs:86-100): the
\* errno of nix becomes an io::Error of one kind, whatever it is
ReadErrorKind(errno) == "Other"

ReaderDone == reader \in {"stopped", "sendfail"} \cup Errnos
WriterDone == writer \in {"stopped", "closed", "EIO"}

\* read_thread_stop_tx.send(()) and write_thread_stop_tx.send(()) were made
\* (app.rs:103-104); the message stays in the queue when the sender is dropped
ReadStopSent == io \in {"stopW", "joinR", "joinW", "ok", "err"}
WriteStopSent == io \in {"joinR", "joinW", "ok", "err"}

\* a holder of drop_handler is dropped; the last one runs
\* Drop for TerminalCloser, which closes the descriptor (termdev.rs:102-106)
DropHandle(n) ==
    /\ arc' = n - 1
    /\ closes' = IF n - 1 = 0 THEN closes + 1 ELSE closes

\* TerminalDevice::split(self) (termdev.rs:59-67): two clones, then self dropped
SplitNoClone(n) == n
ArcAfterClones(n) == n + 2

\* term_io_loop up to its loop (app.rs:54-91): split, spawn the two threads
Split ==
    /\ io = "split"
    /\ DropHandle(ArcAfterClones(arc))
    /\ reader' = "run"
    /\ writer' = "run"
    /\ io' = "watch"
    /\ UNCHANGED <<appVars, uiVars, pc, update, chunk, res, chan, wchan,
                   ioAfterClose, boot, readLog, prev, lineVars, devVars, tick>>

\* reader thread: read_thread_stop_rx.try_recv() (app.rs:62-64)
ReaderPollStop ==
    /\ reader = "run"
    /\ IF ReadStopSent
       THEN reader' = "stopped" /\ DropHandle(arc)
       ELSE reader' = "read" /\ UNCHANGED <<arc, closes>>
    /\ UNCHANGED <<appVars, uiVars, pc, update, chunk, res, chan, writer, io, wchan,
                   ioAfterClose, boot, readLog, prev, lineVars, devVars, tick>>

\* reader thread: term_reader.read(&mut buf) and what follows (app.rs:65-77)
ReaderReadDev ==
    /\ reader = "read"
    /\ ioAfterClose' = (ioAfterClose \/ closes > 0)
    /\ \/ \E bs \in IoChunks :
             /\ Len(readLog) < MaxReads
             /\ readLog' = readLog \o bs
             /\ IF pc = "done"
                THEN reader' = "sendfail" /\ DropHandle(arc) /\ chan' = chan
                ELSE /\ reader' = "run"
                     /\ chan' = ChanSend(chan, bs)
                     /\ UNCHANGED <<arc, closes>>
       \/ /\ reader' = "run"
          /\ UNCHANGED <<readLog, chan, arc, closes>>
       \/ \E errno \in Errnos :
             /\ IF ReadErrorKind(errno) # "WouldBlock"
                THEN reader' = errno /\ DropHandle(arc)
                ELSE reader' = "run" /\ UNCHANGED <<arc, closes>>
             /\ UNCHANGED <<readLog, chan>>
    /\ UNCHANGED <<appVars, uiVars, pc, update, chunk, res, writer, io, wchan,
                   boot, prev, lineVars, devVars, tick>>

\* Receiver::recv on an empty queue returns Err once every sender is dropped
RecvNeverWakes(q, dropped) == FALSE
RecvDisconnected(q, dropped) == q = <<>> /\ dropped

\* writer thread: write_thread_stop_rx.try_recv() (app.rs:84-86)
WriterPollStop ==
    /\ writer = "run"
    /\ IF WriteStopSent
       THEN writer' = "stopped" /\ DropHandle(arc)
       ELSE writer' = "recv" /\ UNCHANGED <<arc, closes>>
    /\ UNCHANGED <<appVars, uiVars, pc, update, chunk, res, chan, reader, io, wchan,
                   ioAfterClose, boot, readLog, prev, lineVars, devVars, tick>>

\* writer thread: input.recv()? (app.rs:87); it blocks while the queue is
\* empty and write_tx is alive
WriterRecv ==
    /\ writer = "recv"
    /\ \/ /\ wchan # <<>>
          /\ wdata' = ChanRecv(wchan).msg
          /\ wchan' = ChanRecv(wchan).rest
          /\ writer' = "write"
          /\ UNCHANGED <<arc, closes>>
       \/ /\ RecvDisconnected(wchan, pc = "done")
          /\ writer' = "closed"
          /\ DropHandle(arc)
          /\ UNCHANGED <<wchan, wdata>>
    /\ UNCHANGED <<appVars, uiVars, pc, update, chunk, res, chan, reader, io,
                   ioAfterClose, boot, readLog, prev, lineVars, written, tick>>

\* writer thread: one write(2) of write_all(&data) (app.rs:88,
\* termdev.rs:86-89): the device accepts the first n bytes that are left, or
\* the call fails and write_all returns the error with the rest unwritten
WriterWrite ==
    /\ writer = "write"
    /\ ioAfterClose' = (ioAfterClose \/ closes > 0)
    /\ \/ \E n \in 1..Len(wdata) :
             /\ written' = written \o SubSeq(wdata, 1, n)
             /\ wdata' = SubSeq(wdata, n + 1, Len(wdata))
             /\ writer' = IF n = Len(wdata) THEN "flush" ELSE "write"
             /\ UNCHANGED <<arc, closes>>
       \/ /\ writer' = "EIO"
          /\ DropHandle(arc)
          /\ UNCHANGED <<wdata, written>>
    /\ UNCHANGED <<appVars, uiVars, pc, update, chunk, res, chan, reader, io, wchan,
                   boot, readLog, prev, lineVars, tick>>

\* writer thread: term_writer.flush() (app.rs:89), which is
\* tcflush(fd, TCIOFLUSH) (termdev.rs:90-92); what the device has accepted
\* stays accepted
WriterFlush ==
    /\ writer = "flush"
    /\ ioAfterClose' = (ioAfterClose \/ closes > 0)
    /\ \/ writer' = "run" /\ UNCHANGED <<arc, closes>>
       \/ writer' = "EIO" /\ DropHandle(arc)
    /\ UNCHANGED <<appVars, uiVars, pc, update, chunk, res, chan, reader, io, wchan,
                   boot, readLog, prev, lineVars, devVars, tick>>

superVars == <<appVars, uiVars, pc, update, chunk, res, chan, reader, writer, wchan,
               arc, closes, ioAfterClose, boot, readLog, prev, lineVars, devVars, tick>>

\* term_io_loop's loop (app.rs:93-102): it breaks on the stop message, on
\* stop_rx dropped, or on a thread that has finished
Watch ==
    /\ io = "watch"
    /\ pc = "done" \/ ReaderDone \/ WriterDone
    /\ io' = "stopR"
    /\ UNCHANGED superVars

\* app.rs:103
SendReadStop ==
    /\ io = "stopR"
    /\ io' = "stopW"
    /\ UNCHANGED superVars

\* app.rs:104
SendWriteStop ==
    /\ io = "stopW"
    /\ io' = "joinR"
    /\ UNCHANGED superVars

\* term_reader_handle.join().unwrap()? (app.rs:105)
JoinReader ==
    /\ io = "joinR"
    /\ ReaderDone
    /\ io' = IF reader = "stopped" THEN "joinW" ELSE "err"
    /\ UNCHANGED superVars

\* term_writer_handle.join().unwrap()? (app.rs:106-107)
JoinWriter ==
    /\ io = "joinW"
    /\ WriterDone
    /\ io' = IF writer = "stopped" THEN "ok" ELSE "err"
    /\ UNCHANGED superVars

\* Enter (app.rs:181-186): the input box is emptied, its line and "\n" are
\* sent to the writer and pushed to the history; the send fails when the
\* writer thread has ended, and App::run returns the error at once
KeyEnter ==
    /\ pc = "poll"
    /\ textarea' = <<>>
    /\ LET line == Append(textarea, NL)
       IN  IF WriterDone
           THEN /\ pc' = "done"
                /\ res' = "senderr"
                /\ UNCHANGED <<wchan, history, update, tick>>
           ELSE /\ wchan' = ChanSend(wchan, line)
                /\ history' = Append(history, line)
                /\ update' = TRUE
                /\ pc' = "draw"
                /\ res' = res
                /\ TickBegins
    /\ UNCHANGED <<appVars, uiVars, ioVars, chunk, writer, io, arc, closes,
                   ioAfterClose, boot, prev, devVars>>

\* any other key (app.rs:193-195): textarea.input(key), here a character
\* typed at the end of the line
InputChars == {49}
KeyChar ==
    /\ pc = "poll"
    /\ \E c \in InputChars : textarea' = Append(textarea, c)
    /\ update' = TRUE
    /\ pc' = "draw"
    /\ TickBegins
    /\ UNCHANGED <<procVars, appVars, uiVars, ioVars, chunk, res, prev, history,
                   devVars>>

\* a panic inside terminal.draw unwinds App::run (main.rs:166-168)
Unwind ==
    /\ pc = "draw"
    /\ update
    /\ pc' = "done"
    /\ res' = "panic"
    /\ UNCHANGED <<procVars, appVars, uiVars, ioVars, update, chunk, prev, lineVars,
                   devVars, tick>>

IoInit ==
    /\ lines = <<<<>>>>
    /\ cur_line = <<>>
    /\ outfile \in {None, Some(<<>>)}
    /\ grapher = None
    /\ position = Follow
    /\ movement_queue = <<>>
    /\ text_area = None
    /\ screen = None
    /\ chart = None
    /\ pc = "draw"
    /\ update = TRUE
    /\ chunk = <<>>
    /\ res = "running"
    /\ chan = <<>>
    /\ reader = "new"
    /\ writer = "new"
    /\ io = "split"
    /\ wchan = <<>>
    /\ arc = 1
    /\ closes = 0
    /\ ioAfterClose = FALSE
    /\ boot = None
    /\ readLog = <<>>
    /\ fed = <<>>
    /\ prev = None
    /\ lineIdle

LoopStep == Draw \/ SkipDraw \/ Recv \/ Parse \/ PollNothing \/ Stop
ReaderStep == ReaderPollStop \/ ReaderReadDev
WriterStep == WriterPollStop \/ WriterRecv \/ WriterWrite \/ WriterFlush
SuperStep == Split \/ Watch \/ SendReadStop \/ SendWriteStop \/ JoinReader \/ JoinWriter

\* at most MaxSends lines are entered, and they are empty
IoNext ==
    \/ LoopStep
    \/ KeyEsc
    \/ Len(history) < MaxSends /\ KeyEnter
    \/ Unwind
    \/ ReaderStep
    \/ WriterStep
    \/ SuperStep

\* each of the three threads of term_io_loop that can take a step takes one
\* in the end
IoSpec ==
    /\ IoInit
    /\ [][IoNext]_vars
    /\ WF_vars(ReaderStep)
    /\ WF_vars(WriterStep)
    /\ WF_vars(SuperStep)

\* the input side: lines of at most MaxTyped characters are typed and
\* entered, MaxEntered of them
WriteNext ==
    \/ LoopStep
    \/ KeyEsc
    \/ Len(textarea) < MaxTyped /\ KeyChar
    \/ Len(history) < MaxEntered /\ KeyEnter
    \/ ReaderStep
    \/ WriterStep
    \/ SuperStep

WriteSpec ==
    /\ IoInit
    /\ [][WriteNext]_vars
    /\ WF_vars(ReaderStep)
    /\ WF_vars(WriterStep)
    /\ WF_vars(SuperStep)

\* and so does the event loop, though no key is ever due: event::poll times
\* out after its millisecond, and a draw that is due is not put off for ever
LoopSpec ==
    /\ IoSpec
    /\ WF_vars(SkipDraw \/ Recv \/ Parse \/ PollNothing \/ Stop)
    /\ []<>~(pc = "draw" /\ update)

-----------------------------------------------------------------------------
(* main (main.rs:124-188).  boot is Some of a record: what the command line *)
(* and the system answer (baudrate ... termOk), the step main is at, the    *)
(* step that failed if one did, and what main has switched on so far.       *)

\* string_to_baudrate (main.rs:55-122): the rates it names; the u32 is
\* formatted in decimal and compared with their decimal texts
BaudRates ==
    {0, 50, 75, 110, 134, 150, 200, 300, 600, 1200, 1800, 2400, 4800, 9600, 19200,
     38400, 57600, 115200, 230400, 460800, 500000, 576000, 921600, 1000000,
     1152000, 1500000, 2000000, 2500000, 3000000, 3500000, 4000000}
string_to_baudrate(n) == IF n \in BaudRates THEN Some(n) ELSE None

\* the order of the steps of main
RawModeFirst ==
    <<"raw", "screen", "terminal", "baud", "path", "outfile", "open", "configure",
      "run", "cleanup", "exit">>
StartupOrder ==
    <<"baud", "path", "outfile", "open", "configure", "raw", "screen", "terminal",
      "run", "cleanup", "exit">>

NextStage(st) ==
    StartupOrder[(CHOOSE i \in 1..Len(StartupOrder) : StartupOrder[i] = st) + 1]

BootBaudrates == {9600, 9601, 115200}

BootInit ==
    /\ boot \in {Some(b) : b \in
            [baudrate : BootBaudrates, terminal_device : BOOLEAN, detected : BOOLEAN,
             out_file : BOOLEAN, createOk : BOOLEAN, openOk : BOOLEAN,
             configOk : BOOLEAN, rawOk : BOOLEAN, screenOk : BOOLEAN,
             termOk : BOOLEAN,
             stage : {StartupOrder[1]}, failed : {"none"}, raw : {FALSE},
             screen : {FALSE}, terminal : {FALSE}, created : {FALSE},
             opened : {FALSE}, running : {FALSE}]}
    /\ lines = <<<<>>>>
    /\ cur_line = <<>> /\ outfile = None /\ grapher = None /\ chart = None
    /\ position = Follow /\ movement_queue = <<>> /\ text_area = None
    /\ screen = None /\ prev = None /\ fed = <<>>
    /\ pc = "main" /\ update = FALSE /\ chunk = <<>> /\ res = "running"
    /\ chan = <<>> /\ reader = "run" /\ readLog = <<>>
    /\ writer = "idle" /\ io = "idle" /\ wchan = <<>>
    /\ arc = 1 /\ closes = 0 /\ ioAfterClose = FALSE
    /\ lineIdle

bootIdle == <<appVars, uiVars, ioVars, pc, update, chunk, res, prev, writer, io,
              wchan, arc, closes, ioAfterClose, lineVars, devVars, tick>>

\* one step of main: it goes on when ok, and returns the error when not
BootStep(st, ok, b) ==
    /\ boot # None
    /\ boot[1].stage = st
    /\ boot' = Some(IF ok THEN [b EXCEPT !.stage = NextStage(st)]
                    ELSE [boot[1] EXCEPT !.stage = "exit", !.failed = st])
    /\ UNCHANGED bootIdle

\* main.rs:127-128
ParseBaud ==
    BootStep("baud", string_to_baudrate(boot[1].baudrate) # None, boot[1])

\* main.rs:129-135: the path given, or else find_possible_arduino_dev
FindDevice ==
    BootStep("path", boot[1].terminal_device \/ boot[1].detected, boot[1])

\* main.rs:139-143: File::create when --out-file is given
CreateOutfile ==
    BootStep("outfile", ~boot[1].out_file \/ boot[1].createOk,
             [boot[1] EXCEPT !.created = boot[1].out_file])

\* main.rs:145-146: TerminalDevice::new
OpenDevice ==
    BootStep("open", boot[1].openOk, [boot[1] EXCEPT !.opened = TRUE])

\* main.rs:147: configure_for_arduino
ConfigureDevice ==
    BootStep("configure", boot[1].configOk, boot[1])

\* main.rs:159: enable_raw_mode
EnableRaw ==
    BootStep("raw", boot[1].rawOk, [boot[1] EXCEPT !.raw = TRUE])

\* main.rs:160-161: EnterAlternateScreen, EnableMouseCapture
EnterScreen ==
    BootStep("screen", boot[1].screenOk, [boot[1] EXCEPT !.screen = TRUE])

\* main.rs:162-163: Terminal::new
NewTerminal ==
    BootStep("terminal", boot[1].termOk, [boot[1] EXCEPT !.terminal = TRUE])

\* main.rs:166-168: app.run
RunApp ==
    BootStep("run", TRUE, [boot[1] EXCEPT !.running = TRUE])

\* main.rs:171-187: the screen is left, raw mode is switched off
Cleanup ==
    BootStep("cleanup", TRUE, [boot[1] EXCEPT !.raw = FALSE, !.screen = FALSE])

BootNext ==
    \/ ParseBaud
    \/ FindDevice
    \/ CreateOutfile
    \/ OpenDevice
    \/ ConfigureDevice
    \/ EnableRaw
    \/ EnterScreen
    \/ NewTerminal
    \/ RunApp
    \/ Cleanup

BootSpec == BootInit /\ [][BootNext]_vars

-----------------------------------------------------------------------------
(* main around the session (main.rs:166-177): app.run is the event loop and *)
(* the threads above; catch_unwind returns when App::run has returned or    *)
(* unwound, and main goes on to its cleanup without waiting for any thread, *)
(* the handle of the thread of term_io_loop being dropped at app.rs:146.    *)

\* main has come to app.run: every startup step succeeded
MainInit ==
    /\ outfile \in {None, Some(<<>>)}
    /\ boot = Some([baudrate |-> 9600, terminal_device |-> TRUE, detected |-> FALSE,
                    out_file |-> outfile # None, createOk |-> TRUE, openOk |-> TRUE,
                    configOk |-> TRUE, rawOk |-> TRUE, screenOk |-> TRUE,
                    termOk |-> TRUE, stage |-> "run", failed |-> "none",
                    raw |-> TRUE, screen |-> TRUE, terminal |-> TRUE,
                    created |-> outfile # None, opened |-> TRUE, running |-> FALSE])
    /\ lines = <<<<>>>>
    /\ cur_line = <<>> /\ grapher = None /\ chart = None
    /\ position = Follow /\ movement_queue = <<>> /\ text_area = None
    /\ screen = None /\ prev = None /\ fed = <<>>
    /\ pc = "draw" /\ update = TRUE /\ chunk = <<>> /\ res = "running"
    /\ chan = <<>> /\ reader = "new" /\ readLog = <<>>
    /\ writer = "new" /\ io = "split" /\ wchan = <<>>
    /\ arc = 1 /\ closes = 0 /\ ioAfterClose = FALSE
    /\ lineIdle

\* app.run(td, &mut terminal) returns to main (main.rs:166-168)
AppReturns ==
    /\ pc = "done"
    /\ RunApp

MainNext ==
    \/ IoNext
    \/ AppReturns
    \/ Cleanup

MainSpec == MainInit /\ [][MainNext]_vars

-----------------------------------------------------------------------------
(* Properties of the session *)

IsPrefix(s, t) == Len(s) <= Len(t) /\ SubSeq(t, 1, Len(s)) = s

RECURSIVE Flatten(_)
Flatten(q) == IF q = <<>> THEN <<>> ELSE Head(q) \o Flatten(Tail(q))

RECURSIVE Count(_, _)
Count(s, x) == IF s = <<>> THEN 0
               ELSE (IF Head(s) = x THEN 1 ELSE 0) + Count(Tail(s), x)

\* the lines joined with "\n"
RECURSIVE Join(_)
Join(ls) == IF Len(ls) = 1 THEN ls[1] ELSE Join(Front(ls)) \o <<NL>> \o Last(ls)

\* "0x" and the two uppercase hexadecimal digits of a byte of 0x80 or more
HexChars == <<48, 49, 50, 51, 52, 53, 54, 55, 56, 57, 65, 66, 67, 68, 69, 70>>
Escape(b) == IF b # NL /\ b >= 128
             THEN <<48, 120, HexChars[(b \div 16) + 1], HexChars[(b % 16) + 1]>>
             ELSE <<b>>

RECURSIVE Escaped(_)
Escaped(bs) == IF bs = <<>> THEN <<>> ELSE Escape(Head(bs)) \o Escaped(Tail(bs))

\* C1: as long as no write to the file has failed, the file holds the bytes
\* fed to parse_byte with every byte of 0x80 or more replaced by "0x" and its
\* uppercase hexadecimal value, and the lines joined with "\n" are that text.
C1_Transcript ==
    res # "err" =>
        /\ Join(lines) = Escaped(fed)
        /\ outfile # None => outfile[1] = Escaped(fed)

\* C1 witness: the bytes "1", 0x9F, "\n" were parsed with a file
C1_Witness ==
    /\ fed = <<49, 159, NL>>
    /\ outfile = Some(<<49, 48, 120, 57, 70, NL>>)
    /\ lines = << <<49, 48, 120, 57, 70>>, <<>> >>

\* the 0x0A bytes parse_byte has parsed with success
NewlinesParsed ==
    Count(fed, NL) - (IF res = "err" /\ fed # <<>> /\ Last(fed) = NL THEN 1 ELSE 0)

\* one step leaves the entries before the last as they are, and either leaves
\* the last one too, or appends to it (a byte other than 0x0A was parsed),
\* or adds one empty entry after it (0x0A was parsed)
OpenLastStep ==
    \/ lines' = lines
    \/ /\ fed' # fed /\ Last(fed') # NL
       /\ Len(lines') = Len(lines)
       /\ Front(lines') = Front(lines)
       /\ IsPrefix(Last(lines), Last(lines'))
    \/ /\ fed' # fed /\ Last(fed') = NL
       /\ lines' = Append(lines, <<>>)

\* C2: the Line Buffer is never empty, holds one entry more than 0x0A bytes
\* were parsed with success, and only its last entry is open: no step removes,
\* reorders or changes an entry before the last.
C2_OpenLast ==
    /\ [](Len(lines) >= 1 /\ Len(lines) = 1 + NewlinesParsed)
    /\ [][OpenLastStep]_vars

\* C2 witness: a closed first line and an open second line that was appended to
C2_Witness ==
    /\ fed = <<49, NL, 159>>
    /\ lines = << <<49>>, <<48, 120, 57, 70>> >>

\* C3: the bytes passed to parse_byte are a prefix of the bytes the reader
\* obtained from the device, in device order; while the reader runs, what it
\* obtained is what was parsed, then the rest of the chunk being parsed, then
\* the queued chunks in queue order.
C3_DeviceOrder ==
    /\ IsPrefix(fed, readLog)
    /\ reader = "run" => readLog = fed \o chunk \o Flatten(chan)

\* C3 witness: three chunks were read; the first is parsed, two are queued
C3_Witness ==
    /\ Len(fed) = 1
    /\ chunk = <<>>
    /\ Len(chan) = 2
    /\ chan[1] # chan[2]

\* ceil((len + 4) / w)
WrappedHeight(len, w) ==
    LET n == len + line_number_width
    IN  IF n % w = 0 THEN n \div w ELSE (n \div w) + 1

\* C7: a position At(line, offset) names a line of the buffer and one of the
\* wrapped rows of that line at the current width of the viewport.
C7_PositionInRange ==
    (position.tag = "At" /\ text_area # None) =>
        /\ 0 <= position.line /\ position.line < Len(lines)
        /\ 0 <= position.offset
        /\ position.offset
             <= WrappedHeight(Len(lines[position.line + 1]), text_area[1].width) - 1

-----------------------------------------------------------------------------
(* Properties of the wrap/scroll engine *)

\* At(line, offset) names a wrapped row of a line of the buffer
ValidAt(p, area, ls) ==
    /\ p.tag = "At"
    /\ 0 <= p.line /\ p.line < Len(ls)
    /\ 0 <= p.offset
    /\ p.offset <= WrappedHeight(Len(ls[p.line + 1]), area.width) - 1

\* the movement meets a boundary of the buffer: ScrollUp at the first row of
\* the first line, ScrollDown at or past the last row of the last line
ClampedStep(p, mov, area, ls) ==
    /\ p.tag = "At"
    /\ \/ mov = ScrollUp /\ p.line = 0 /\ p.offset = 0
       \/ /\ mov = ScrollDown
          /\ p.line >= Len(ls) - 1
          /\ p.offset + 1 >= WrappedHeight(Len(ls[p.line + 1]), area.width)

RECURSIVE SomeClamped(_, _, _, _)
SomeClamped(p, q, area, ls) ==
    /\ q # <<>>
    /\ \/ ClampedStep(p, Head(q), area, ls)
       \/ SomeClamped(do_movement(p, Head(q), area, ls), Tail(q), area, ls)

\* n ScrollUp then n ScrollDown, or n ScrollDown then n ScrollUp, n >= 1
ThereAndBack(q) ==
    /\ Len(q) >= 2
    /\ Len(q) % 2 = 0
    /\ \E a, b \in {ScrollUp, ScrollDown} :
          /\ a # b
          /\ \A i \in 1..Len(q) : q[i] = (IF 2 * i <= Len(q) THEN a ELSE b)

RECURSIVE TotalHeight(_, _)
TotalHeight(ls, w) ==
    IF ls = <<>> THEN 0
    ELSE WrappedHeight(Len(Head(ls)), w) + TotalHeight(Tail(ls), w)

\* C5: a render that ends in Follow mode, of a buffer of at least as many
\* wrapped rows as the viewport has, draws on every row of the viewport and
\* puts the last character of the last line on the bottom row, with nothing
\* after it.
C5_FollowBottom ==
    ( /\ prev # None
      /\ position = Follow
      /\ TotalHeight(lines, text_area[1].width) >= text_area[1].height )
    => LET area == text_area[1]
           l == Len(lines) - 1
           text == RowText(l, lines[Len(lines)])
           col == (Len(text) - 1) % area.width
       IN  /\ \A r \in 0..(area.height - 1) : screen[1][<<r, 0>>] # Blank
           /\ screen[1][<<area.height - 1, col>>] = <<l, Len(text) - 1, Last(text)>>
           /\ \A c \in (col + 1)..(area.width - 1) :
                 screen[1][<<area.height - 1, c>>] = Blank

\* C5 witness: the buffer is higher than the viewport and the top row of the
\* viewport is not the first row of its line
C5_Witness ==
    /\ prev # None
    /\ position = Follow
    /\ TotalHeight(lines, text_area[1].width) > text_area[1].height
    /\ screen[1][<<0, 0>>] # Blank
    /\ screen[1][<<0, 0>>][2] > 0

\* C6: at every width w >= 1 the wrapped height that ScrollUp, ScrollDown and
\* follow_get_start_pos compute for a line of the buffer, of len bytes, is
\* ceil((len + 4) / w), is at least 1, and is no higher at the next width
\* (hence at any greater one).
C6_WrappedHeight ==
    \A len \in {Len(lines[i]) : i \in 1..Len(lines)} : \A w \in 1..MaxWidth :
        /\ ScrollUpHeight(len, w) = WrappedHeight(len, w)
        /\ ScrollDownHeight(len, w) = WrappedHeight(len, w)
        /\ FollowHeight(len, w) = WrappedHeight(len, w)
        /\ ScrollUpHeight(len, w) >= 1
        /\ ScrollUpHeight(len, w + 1) <= ScrollUpHeight(len, w)
        /\ ScrollDownHeight(len, w + 1) <= ScrollDownHeight(len, w)
        /\ FollowHeight(len, w + 1) <= FollowHeight(len, w)

\* C6 witness: ScrollUp has left the second line for the last of the four
\* wrapped rows of the first, a line of six characters at width 3
C6_Witness ==
    /\ prev # None
    /\ prev[1].position = At(1, 0)
    /\ prev[1].queue = <<ScrollUp>>
    /\ Len(lines[1]) = 6
    /\ text_area[1].width = 3
    /\ position = At(0, 3)

\* one scroll step up from At(line, offset), as C18 words it
StepUp(p, w, ls) ==
    IF p.offset > 0 THEN At(p.line, p.offset - 1)
    ELSE IF p.line > 0
         THEN At(p.line - 1, WrappedHeight(Len(ls[p.line]), w) - 1)
         ELSE p

\* one scroll step down from At(line, offset), as C17 words it
StepDown(p, w, ls) ==
    IF p.offset < WrappedHeight(Len(ls[p.line + 1]), w) - 1
    THEN At(p.line, p.offset + 1)
    ELSE IF p.line + 1 < Len(ls) THEN At(p.line + 1, 0)
         ELSE p

\* the last render started from position p with the queue q
Rendered(p, q) == prev # None /\ prev[1].position = p /\ prev[1].queue = q

\* C16: ScrollUp applied to Follow gives the position one scroll step above
\* the start position follow_get_start_pos returns.
C16_FollowScrollUp ==
    Rendered(Follow, <<ScrollUp>>) =>
        LET fs == follow_get_start_pos(text_area[1], lines)
        IN  position = StepUp(At(fs[1], fs[2]), text_area[1].width, lines)

\* C17: ScrollDown applied to At(line, offset), a wrapped row of a line of the
\* buffer, gives the next row of the line, or else the first row of the next
\* line, or else, on the last row of the last line, the same position.
C17_ScrollDownClamped ==
    ( /\ prev # None
      /\ prev[1].queue = <<ScrollDown>>
      /\ ValidAt(prev[1].position, text_area[1], lines) )
    => position = StepDown(prev[1].position, text_area[1].width, lines)

\* C18: ScrollUp applied to At(line, offset) gives At(line, offset - 1) when
\* offset > 0, At(line - 1, wrapped_height(lines[line - 1]) - 1) when
\* offset = 0 and line > 0, and the same position when both are 0.
C18_ScrollUpStep ==
    ( /\ prev # None
      /\ prev[1].queue = <<ScrollUp>>
      /\ prev[1].position.tag = "At" )
    => position = StepUp(prev[1].position, text_area[1].width, lines)

\* C18 witness: ScrollUp inside a line, from its third wrapped row to its second
C18_Witness ==
    /\ Rendered(At(0, 2), <<ScrollUp>>)
    /\ Len(lines[1]) = 6
    /\ text_area[1].width = 3
    /\ position = At(0, 1)

\* the movements of q applied to p, the oldest first
RECURSIVE InOrder(_, _, _, _)
InOrder(p, q, area, ls) ==
    IF q = <<>> THEN p
    ELSE do_movement(InOrder(p, Front(q), area, ls), Last(q), area, ls)

\* a step leaves the queue as it is, or adds one movement at its end, or is
\* a render, which empties it
QueueStep ==
    \/ movement_queue' = movement_queue
    \/ \E mov \in Movement : movement_queue' = Append(movement_queue, mov)
    \/ prev' # None /\ movement_queue' = <<>>

\* C19: movements are queued in the order issued; a render applies them in
\* that order, draws from the position they lead to, and leaves the queue
\* empty; a queued Follow makes the position Follow whatever it was.
C19_QueueInOrder ==
    /\ [][QueueStep]_vars
    /\ [](prev # None =>
            LET area == text_area[1]
                q == prev[1].queue
            IN  /\ movement_queue = <<>>
                /\ position = InOrder(prev[1].position, q, area, lines)
                /\ screen = Some(render(position, <<>>, area, lines).cells)
                /\ \A i \in 1..Len(q) :
                      q[i] = MFollow =>
                          InOrder(prev[1].position, SubSeq(q, 1, i), area, lines) = Follow)

\* C19 witness: Follow then ScrollUp were queued on a scrolled position; the
\* render left the start position of Follow, which the other order does not
C19_Witness ==
    /\ prev # None
    /\ prev[1].queue = <<MFollow, ScrollUp>>
    /\ prev[1].position.tag = "At"
    /\ position.tag = "At"
    /\ movement_queue = <<>>

-----------------------------------------------------------------------------
(* Properties of the grapher *)

\* a step that appends a sample moves both bounds of the window by one or not
\* at all, by one exactly when the series length before it plus
\* window_len / 10 is above the upper bound; no step moves the window back
WindowStep ==
    LET g == grapher[1]
        h == grapher'[1]
        moved == h.window # g.window
    IN  /\ \/ h.data = g.data /\ ~moved
           \/ /\ Len(h.data) = Len(g.data) + 1
              /\ moved => h.window = <<g.window[1] + 1, g.window[2] + 1>>
              /\ moved <=> 10 * Len(g.data) + g.window_len > 10 * g.window[2]
        /\ h.window[1] >= g.window[1]
        /\ h.window[2] >= g.window[2]

\* C8: each sample moves the window by zero or one unit on both bounds, by
\* one exactly when series length + window_len / 10 > upper bound; the window
\* is always window_len wide and never moves back.
C8_Window ==
    /\ [](grapher[1].window[2] - grapher[1].window[1] = grapher[1].window_len)
    /\ [][WindowStep]_vars

\* C8 witness: a window of 3 that has moved twice, after five samples
C8_Witness ==
    /\ grapher[1].window_len = 3
    /\ grapher[1].window = <<2, 5>>
    /\ Len(grapher[1].data) = 5

\* the samples of the chart whose x lies on the x axis
OnAxis(c) == {i \in 1..Len(c.data) :
                 c.xaxis[1] <= c.data[i][1] /\ c.data[i][1] <= c.xaxis[2]}

\* C9: once the series holds window_len samples, every redraw shows at least
\* window_len samples inside the x axis.
C9_WindowFull ==
    (chart # None /\ Len(grapher[1].data) >= grapher[1].window_len)
    => Cardinality(OnAxis(chart[1])) >= grapher[1].window_len

\* C10: at every redraw the bounds of the y axis enclose every visible sample.
C10_YBounds ==
    chart # None =>
        \A i \in 1..Len(chart[1].data) :
            /\ FLeq(chart[1].ybounds[1], chart[1].data[i][2])
            /\ FLeq(chart[1].data[i][2], chart[1].ybounds[2])

-----------------------------------------------------------------------------
(* Properties of the sample parser *)

AllDigits(t) == \A i \in 1..Len(t) : t[i] \in 48..57

\* t is a signed decimal: an optional minus, one digit or more, then
\* optionally a dot and digits
IsNumberText(t) ==
    /\ t # <<>>
    /\ LET b == IF t[1] = Minus THEN Tail(t) ELSE t
       IN  \E k \in 1..Len(b) :
              /\ AllDigits(SubSeq(b, 1, k))
              /\ \/ k = Len(b)
                 \/ b[k + 1] = Dot /\ AllDigits(SubSeq(b, k + 2, Len(b)))

NumbersIn(s) == {m \in (1..Len(s)) \X (1..Len(s)) :
                   m[1] <= m[2] /\ IsNumberText(SubSeq(s, m[1], m[2]))}

\* the first match: the leftmost start, and from it the longest text
FirstNumber(s) ==
    LET m == CHOOSE a \in NumbersIn(s) :
                 \A b \in NumbersIn(s) :
                     a[1] < b[1] \/ (a[1] = b[1] /\ a[2] >= b[2])
    IN  SubSeq(s, m[1], m[2])

\* the digits of t as one integer, and the number of digits after the dot
RECURSIVE DigitsOf(_)
DigitsOf(t) ==
    IF t = <<>> THEN 0
    ELSE IF Last(t) \in 48..57 THEN 10 * DigitsOf(Front(t)) + Last(t) - 48
    ELSE DigitsOf(Front(t))

FractionLen(t) ==
    IF \E i \in 1..Len(t) : t[i] = Dot
    THEN Len(t) - (CHOOSE i \in 1..Len(t) : t[i] = Dot)
    ELSE 0

\* the number t denotes, as the f64 of the model
Decimal(t) ==
    Round(IF t[1] = Minus THEN -DigitsOf(t) ELSE DigitsOf(t), Pow10(FractionLen(t)))

SampleStep ==
    LET g == grapher[1]
        h == grapher'[1]
    IN  /\ res' = res
        /\ IF fed' = Append(fed, NL) /\ NumbersIn(cur_line) # {}
           THEN h.data = Append(g.data, <<Len(g.data), Decimal(FirstNumber(cur_line))>>)
           ELSE h.data = g.data

\* C11: with graphing on, a completed line that holds a signed decimal
\* appends exactly one sample, (series length before, first match as a
\* number); a completed line without one, and every other byte, append
\* nothing; no step is an error.
C11_Samples == [][SampleStep]_vars

\* C11 witness: "1\n", "f\n", "-1\n" were fed: two samples, none for "f"
C11_Witness ==
    /\ fed = <<49, NL, 102, NL, Minus, 49, NL>>
    /\ grapher[1].data = << <<0, Fin(1, 1)>>, <<1, Fin(-1, 1)>> >>
    /\ res = "running"

-----------------------------------------------------------------------------
(* Properties of main *)

StartupSteps == {"baud", "path", "outfile", "open", "configure"}

\* C14: when a startup step has failed (baud rate, device path, output file,
\* opening or configuring the device), main has returned the error with raw
\* mode, the alternate screen and the terminal never switched on and App::run
\* never started.
C14_FailedStartup ==
    (boot # None /\ boot[1].failed \in StartupSteps) =>
        /\ boot[1].stage = "exit"
        /\ ~boot[1].raw
        /\ ~boot[1].screen
        /\ ~boot[1].terminal
        /\ ~boot[1].running

\* C14 witness: the output file was created, then the device did not open
C14_Witness ==
    /\ boot # None
    /\ boot[1].failed = "open"
    /\ boot[1].created
    /\ boot[1].rawOk
    /\ boot[1].stage = "exit"

-----------------------------------------------------------------------------
(* Properties of the threads *)

Terminated == ReaderDone /\ WriterDone /\ io \in {"ok", "err"}

\* C12: once App::run has returned while the writer thread waits on its
\* empty queue, the reader thread, the writer thread and term_io_loop all
\* terminate in the end.
C12_StopCompletes ==
    (pc = "done" /\ writer = "recv" /\ wchan = <<>>) ~> Terminated

\* C12 witness: Esc was pressed, the writer was woken from recv by the closed
\* queue, and everything has terminated
C12_Witness ==
    /\ pc = "done"
    /\ res = "ok"
    /\ writer = "closed"
    /\ Terminated

\* C13: close(fd) is called at most once, and only after the original
\* handle, the reader and the writer have all been dropped; once they all
\* are, it has been called; no read or write is issued after it.
C13_ClosedOnce ==
    LET allDropped == io # "split" /\ ReaderDone /\ WriterDone
    IN  /\ closes <= 1
        /\ closes = 1 <=> allDropped
        /\ ~ioAfterClose

\* C13 witness: the reader was dropped first, on a failed send, the writer
\* last, and the descriptor was closed
C13_Witness ==
    /\ reader = "sendfail"
    /\ writer = "stopped"
    /\ closes = 1
    /\ arc = 0

\* C15: when the reader or the writer thread has ended on a device error, the
\* session ends: App::run returns in the end, with no key pressed.
C15_SessionEnds == (reader = "EIO" \/ writer = "EIO") ~> pc = "done"

\* C20: the reader thread ends only on the stop message, on an I/O error
\* other than would-block (EAGAIN), or on a failed send to the queue that
\* App::run has dropped; a read that would block is ignored.
C20_WouldBlockIgnored == ReaderDone => reader \in {"stopped", "EIO", "sendfail"}

\* C21: when term_io_loop has returned, whatever made it leave its loop and
\* whatever the reader thread returned, the stop message was sent to the
\* reader and to the writer and both threads were joined, so both have ended.
C21_StopAndJoin ==
    io \in {"ok", "err"} =>
        /\ ReadStopSent /\ WriteStopSent
        /\ ReaderDone /\ WriterDone

-----------------------------------------------------------------------------
(* Properties of the shutdown *)

\* main has left the alternate screen and switched raw mode off
Restored == boot # None /\ boot[1].stage = "exit"

\* C22: when main has restored the terminal, the stop message was sent to the
\* reader thread and to the writer thread, and both threads have ended.
C22_JoinedBeforeRestore ==
    Restored =>
        /\ ReadStopSent /\ WriteStopSent
        /\ ReaderDone /\ WriterDone

-----------------------------------------------------------------------------
(* Properties of a tick of the event loop *)

\* a key, mouse or resize event is handled in this step (app.rs:174-216)
EventHandled ==
    \/ KeyEsc
    \/ \E mov \in Movement : Scroll(mov)
    \/ Resize
    \/ KeyEnter
    \/ KeyChar

\* C23: when an event is handled, every chunk that was in the queue of device
\* bytes when the tick began has been received and passed to parse_byte.
C23_DrainedFirst == [][EventHandled => tick = 0]_vars

-----------------------------------------------------------------------------
(* Properties of a failed write to the output file *)

\* parse_byte returns the error of a write or a flush in this step
WriteFails == res = "running" /\ res' = "err"

\* C24: in the step in which a write to the output file fails, the byte is
\* the one parse_byte was given, the loop is left for the stop message of
\* app.rs:219 with the error as result, and a failing "\n" changes neither
\* the Line Buffer nor the grapher; from then on the result stays the error,
\* no byte is parsed, no chunk is received, and the only step of App::run
\* left is the one that sends the stop message and returns.
C24_WriteFailure ==
    [][ /\ WriteFails =>
            /\ pc = "parse" /\ outfile # None
            /\ fed' = Append(fed, Head(chunk))
            /\ pc' = "stop"
            /\ Head(chunk) = NL => UNCHANGED <<lines, cur_line, grapher, outfile>>
        /\ res = "err" =>
            /\ res' = "err"
            /\ UNCHANGED <<fed, chunk, lines, cur_line, grapher, outfile>>
            /\ Len(chan') >= Len(chan)
            /\ pc \in {"stop", "done"}
            /\ pc' = pc \/ (pc = "stop" /\ pc' = "done")
      ]_vars

\* C24 witness: the write of the "\n" that closes the line "1" failed while
\* graphing; the line is still open, no sample was taken, a byte of the chunk
\* was left unparsed and App::run has returned the error
C24_Witness ==
    /\ res = "err"
    /\ pc = "done"
    /\ fed = <<49, NL>>
    /\ lines = <<<<49>>>>
    /\ grapher # None
    /\ grapher[1].data = <<>>
    /\ chunk # <<>>

-----------------------------------------------------------------------------
(* Properties of the input side *)

\* the writer thread is not inside write_all
BetweenChunks == writer # "write"

\* C25: an Enter sends the input line and "\n" as one chunk, pushes that line
\* to the history and empties the input box; the bytes written to the device
\* followed by what is left of the writer's chunk and by the queue are the
\* lines entered, in order, so that no chunk is written twice or out of
\* order; between two chunks the bytes written are whole chunks; and a chunk
\* that was written is flushed before the writer goes back to its queue.
C25_EnterWritten ==
    /\ [][ /\ KeyEnter =>
               /\ wchan' = Append(wchan, Append(textarea, NL))
               /\ history' = Append(history, Append(textarea, NL))
               /\ textarea' = <<>>
           /\ (writer = "write" /\ writer' # "write") => writer' \in {"flush", "EIO"}
           /\ (writer # "recv" /\ writer' = "recv") => writer = "run"
           /\ (writer # "run" /\ writer' = "run") => writer \in {"new", "flush"}
         ]_vars
    /\ [](written \o wdata \o Flatten(wchan) = Flatten(history))
    /\ [](BetweenChunks =>
            \E k \in 0..Len(history) : written = Flatten(SubSeq(history, 1, k)))

-----------------------------------------------------------------------------
(* Properties of the open line *)

\* a "\n" was parsed in this step and its write, if any, succeeded
LineClosed == fed' # fed /\ Last(fed') = NL /\ Len(lines') = Len(lines) + 1

\* C26: App::cur_line is the last entry of the Line Buffer, whatever
\* parse_byte returned; and when a "\n" closes a line while graphing, the
\* grapher takes in the text of that last entry.
C26_CurLineIsOpenLine ==
    /\ [](cur_line = Last(lines))
    /\ [][(LineClosed /\ grapher # None) =>
             grapher' = Some(Ingest(grapher[1], Last(lines)))]_vars

\* C26 witness: after the line "1" was closed and sampled, the write of a
\* byte to the output file failed, and the byte is in both
C26_Witness ==
    /\ res = "err"
    /\ fed = <<49, NL, 49>>
    /\ cur_line = <<49>>
    /\ lines = <<<<49>>, <<49>>>>
    /\ grapher # None
    /\ Len(grapher[1].data) = 1

-----------------------------------------------------------------------------
(* Properties of a frozen position *)

\* C27: a step of parse_byte changes neither the position nor the movement
\* queue; and while the position is At(line, offset) and no movement is
\* queued, whatever is received or redrawn, the position stays what it is
\* and the lines above line keep their content.
C27_FrozenPosition ==
    [][ /\ fed' # fed => UNCHANGED <<position, movement_queue>>
        /\ (position.tag = "At" /\ movement_queue = <<>> /\ movement_queue' = <<>>) =>
              /\ position' = position
              /\ Len(lines') >= Len(lines)
              /\ \A i \in 1..Min(position.line, Len(lines)) : lines'[i] = lines[i]
      ]_vars

\* C27 witness: the position is frozen at the top, two "\n" were received,
\* and the last redraw drew the third line below the frozen start
C27_Witness ==
    /\ position = At(0, 0)
    /\ movement_queue = <<>>
    /\ fed = <<NL, NL>>
    /\ lines = <<<<>>, <<>>, <<>>>>
    /\ pc = "recv"
    /\ ~update
    /\ screen # None
    /\ \E rc \in DOMAIN screen[1] : screen[1][rc] # Blank /\ screen[1][rc][1] = 2

-----------------------------------------------------------------------------
(* Properties of the series *)

\* C28: the i-th sample of the series, counted from 0, has x = i; and the
\* newest sample lies in the window of the x axis, a tenth of window_len or
\* more below its upper bound (both sides times ten, in integers).
C28_SeriesInWindow ==
    LET g == grapher[1]
        n == Len(g.data)
    IN  /\ \A i \in 1..n : g.data[i][1] = i - 1
        /\ n > 0 =>
             /\ g.window[1] <= g.data[n][1]
             /\ 10 * g.data[n][1] <= 10 * g.window[2] - g.window_len

\* C28 witness: the fourth sample moved the window of 3 by one and lies in it
C28_Witness ==
    /\ grapher[1].window_len = 3
    /\ Len(grapher[1].data) = 4
    /\ grapher[1].data[4][1] = 3
    /\ grapher[1].window = <<1, 4>>

====
